---- MODULE Spec2Model ----
(***************************************************************************)
(* A model of the region-based allocators of this repository:              *)
(*   - the basic block allocator      (src/allocator.h),                   *)
(*   - the extended block allocator   (src/block_allocator.h),             *)
(*   - the arena allocator, bounded and virtual-memory backed              *)
(*                                    (src/gbr_arena.h).                   *)
(* One behaviour exercises one allocator instance; `sys` says which.       *)
(*                                                                         *)
(* Block allocator addresses are counted in T-slots.  The null pointer is  *)
(* NullPtr; the system allocator (operator new) returns any base whose     *)
(* range is disjoint from the slabs currently held.                        *)
(*                                                                         *)
(* An access to a descriptor that does not exist (blocks[blockIndex] with  *)
(* blockIndex >= blocks.size(), *(begin - 1)) is undefined behaviour: the  *)
(* value read is any value of the bounded domains, an out-of-bounds write  *)
(* leaves the modelled state alone, `ub` is set and the run is followed no *)
(* further.                                                                *)
(*                                                                         *)
(* Arena addresses and sizes are counted in bytes.  size_t is WordBits     *)
(* wide; the virtual arena's packing of the reserved size and the          *)
(* allocation granularity into one header word keeps the source's shape    *)
(* (reserve << ShiftBits | granularity, read back with a MaskBits mask)    *)
(* at a reduced width.                                                     *)
(***************************************************************************)
EXTENDS Integers, Sequences, FiniteSets, Bags, TLC

VARIABLES
    sys,            \* which allocator this behaviour exercises
    blocks,         \* allocatorState::blocks, insertion order
    sortedBlocks,   \* allocatorState::sortedBlocks: indices into blocks, by base
    blockIndex,     \* allocatorState::blockIndex (size_t)
    blockOffset,    \* allocatorState::blockOffset (size_t)
    live,           \* ghost: the bag of outstanding allocations
    held,           \* ghost: slots obtained from the system minus slots returned
    ret,            \* ghost: the last call and what it returned
    ub,             \* ghost: an undefined access has happened
    hist,           \* ghost: slabs created, peak resident slots, allocation order
    mem,            \* environment: slots of address space the system hands out
    arena,          \* the arena: its user base and its ArenaHeader
    threads         \* the threads sharing the singleton, and its mutex

vars == <<sys, blocks, sortedBlocks, blockIndex, blockOffset, live, held, ret, ub, hist, mem, arena, threads>>

(***************************************************************************)
(* Bounds of the model.                                                    *)
(***************************************************************************)
WordBits == 24
ShiftBits == 12
MaskBits == 8
MaxArenaOffset == 300
MemSlots == 10
MaxLive == 3
MaxOver == 2
MaxOffset == 8
MaxAllocs == 5
NThreads == 2
MaxPairs == 2
S2MemSlots == 12
S2MaxLive == 4

(***************************************************************************)
(* Program constants.                                                      *)
(***************************************************************************)
SlabSize == 4
NullPtr == 0

Word == 2 ^ WordBits
SizeMax == Word - 1

Inc(x) == (x + 1) % Word
Dec(x) == (x + Word - 1) % Word
Sub(x, y) == (x + Word - y) % Word

Max(a, b) == IF a >= b THEN a ELSE b

RemoveAtMut(s, i) == s

RemoveAt(s, i) == SubSeq(s, 1, i - 1) \o SubSeq(s, i + 1, Len(s))

(***************************************************************************)
(* Slab descriptors.                                                       *)
(***************************************************************************)
allocInfo(p, count, savedOffset, allocatedCount) ==
    [p |-> p, count |-> count, savedOffset |-> savedOffset,
     allocatedCount |-> allocatedCount]

Disjoint(a, m, b, n) == a + m <= b \/ b + n <= a

\* operator new: any base whose range is free
FreeBases(bs, cap) ==
    {b \in 1..(mem - cap + 1) :
        \A i \in 1..Len(bs) : Disjoint(b, cap, bs[i].p, bs[i].allocatedCount)}

\* a rebuild that copies the registry without sorting it
sortBlocksMut(bs) == [k \in 1..Len(bs) |-> k]

\* sortBlocks(): the descriptors of blocks, ordered by ascending base
sortBlocks(bs) ==
    LET n == Len(bs)
        rank(i) == Cardinality({j \in 1..n :
                        bs[j].p < bs[i].p \/ (bs[j].p = bs[i].p /\ j < i)})
    IN  [k \in 1..n |-> CHOOSE i \in 1..n : rank(i) = k - 1]

\* std::ranges::lower_bound(sortedBlocks, pointer, {}, ->p): 1..Len+1 (end)
lowerBound(bs, sorted, pointer) ==
    LET n == Len(sorted)
        notLess == {k \in 1..n : bs[sorted[k]].p >= pointer}
    IN  IF notLess = {} THEN n + 1
        ELSE CHOOSE k \in notLess : \A j \in notLess : k <= j

\* the position in sortedBlocks deallocate settles on; 0 is *(begin - 1)
findBlock(bs, sorted, pointer) ==
    LET it == lowerBound(bs, sorted, pointer)
    IN  IF it = Len(sorted) + 1 THEN it - 1
        ELSE IF bs[sorted[it]].p = pointer THEN it
        ELSE it - 1

\* elements > blockSize - blockOffset (size_t arithmetic)
needsNewBlockMut(count) == count > SlabSize

needsNewBlock(count) ==
    IF sys = "basic" THEN count > Sub(SlabSize, blockOffset)
    ELSE count > Sub(blocks[Len(blocks)].allocatedCount, blockOffset)

\* the size handed to operator delete, in slots
deleteSizeMut(info) == SlabSize

deleteSize(info) ==
    IF sys = "basic" THEN SlabSize ELSE info.allocatedCount

\* blockOffset = blocks[blockIndex].savedOffset after a slab is erased
restoredOffset(bs, index) == bs[index + 1].savedOffset

GarbagePtrs == 0..mem
GarbageOffsets == 0..(SlabSize + MaxOver)

Returned(op, n, p) == [op |-> op, n |-> n, p |-> p]
Alloc(p, n, slab) == [p |-> p, n |-> n, slab |-> slab]

(***************************************************************************)
(* BlockAllocator::allocate                                                *)
(***************************************************************************)
AllocZeroMut(count) ==
    /\ count = 0
    /\ ret' = Returned("allocate", count, NullPtr)
    /\ blockOffset' = 0
    /\ UNCHANGED <<blocks, sortedBlocks, blockIndex, live, held, ub>>

AllocZero(count) ==
    /\ count = 0
    /\ ret' = Returned("allocate", count, NullPtr)
    /\ UNCHANGED <<blocks, sortedBlocks, blockIndex, blockOffset, live, held, ub>>

AllocOversizeBasicMut(count) ==
    /\ sys = "basic"
    /\ count > SlabSize
    /\ \E pointer \in FreeBases(blocks, SlabSize) :
          /\ blocks' = Append(blocks, allocInfo(pointer, 1, 0, SlabSize))
          /\ sortedBlocks' = sortBlocks(blocks')
          /\ blockIndex' = Len(blocks') - 1
          /\ blockOffset' = count
          /\ live' = live (+) SetToBag({Alloc(pointer, count, pointer)})
          /\ held' = held + SlabSize
          /\ ret' = Returned("allocate", count, pointer)
    /\ UNCHANGED ub

AllocOversizeBasic(count) ==
    /\ sys = "basic"
    /\ count > SlabSize
    /\ ret' = Returned("allocate", count, NullPtr)
    /\ UNCHANGED <<blocks, sortedBlocks, blockIndex, blockOffset, live, held, ub>>

AllocOversizeExt(count) ==
    /\ sys = "extended"
    /\ count > SlabSize
    /\ \E pointer \in FreeBases(blocks, count) :
         LET info == allocInfo(pointer, 1, count, count)
             n == Len(blocks)
         IN  /\ blocks' = IF n = 0 THEN <<info>>
                          ELSE Append([blocks EXCEPT ![n] = info], blocks[n])
             /\ sortedBlocks' = sortBlocks(blocks')
             /\ blockIndex' = Inc(blockIndex)
             /\ live' = live (+) SetToBag({Alloc(pointer, count, pointer)})
             /\ held' = held + count
             /\ ret' = Returned("allocate", count, pointer)
    /\ UNCHANGED <<blockOffset, ub>>

AllocFirst(count) ==
    /\ count \in 1..SlabSize
    /\ Len(blocks) = 0
    /\ \E pointer \in FreeBases(blocks, SlabSize) :
         /\ blocks' = <<allocInfo(pointer, 1, 0, SlabSize)>>
         /\ sortedBlocks' = sortBlocks(blocks')
         /\ blockOffset' = count
         /\ blockIndex' = 0
         /\ live' = live (+) SetToBag({Alloc(pointer, count, pointer)})
         /\ held' = held + SlabSize
         /\ ret' = Returned("allocate", count, pointer)
    /\ UNCHANGED ub

AllocNewBlock(count) ==
    /\ count \in 1..SlabSize
    /\ Len(blocks) > 0
    /\ needsNewBlock(count)
    /\ \E pointer \in FreeBases(blocks, SlabSize) :
         LET n == Len(blocks)
         IN  /\ blocks' = Append([blocks EXCEPT ![n].savedOffset = blockOffset],
                                 allocInfo(pointer, 1, 0, SlabSize))
             /\ sortedBlocks' = sortBlocks(blocks')
             /\ blockOffset' = count
             /\ blockIndex' = Inc(blockIndex)
             /\ live' = live (+) SetToBag({Alloc(pointer, count, pointer)})
             /\ held' = held + SlabSize
             /\ ret' = Returned("allocate", count, pointer)
    /\ UNCHANGED ub

AllocBump(count) ==
    /\ count \in 1..SlabSize
    /\ Len(blocks) > 0
    /\ ~needsNewBlock(count)
    /\ blockOffset + count <= MaxOffset
    /\ IF blockIndex < Len(blocks)
       THEN LET pointer == blocks[blockIndex + 1].p + blockOffset
            IN  /\ blocks' = [blocks EXCEPT ![blockIndex + 1].count = Inc(@)]
                /\ live' = live (+) SetToBag({Alloc(pointer, count, blocks[blockIndex + 1].p)})
                /\ ret' = Returned("allocate", count, pointer)
                /\ ub' = ub
       ELSE \E g \in GarbagePtrs :
                /\ blocks' = blocks
                /\ live' = live (+) SetToBag({Alloc(g + blockOffset, count, NullPtr)})
                /\ ret' = Returned("allocate", count, g + blockOffset)
                /\ ub' = TRUE
    /\ blockOffset' = (blockOffset + count) % Word
    /\ UNCHANGED <<sortedBlocks, blockIndex, held>>

allocate(count) ==
    /\ sys \in {"basic", "extended"}
    /\ ~ub
    /\ \/ AllocZero(count)
       \/ AllocOversizeBasic(count)
       \/ AllocOversizeExt(count)
       \/ AllocFirst(count)
       \/ AllocNewBlock(count)
       \/ AllocBump(count)

(***************************************************************************)
(* BlockAllocator::deallocate, called with the pointer of the outstanding  *)
(* allocation a                                                            *)
(***************************************************************************)
deallocate(a) ==
    /\ sys \in {"basic", "extended"}
    /\ ~ub
    /\ BagIn(a, live)
    /\ LET pointer == a.p
           k == findBlock(blocks, sortedBlocks, pointer)
       IN  /\ ret' = Returned("deallocate", 0, NullPtr)
           /\ live' = live (-) SetToBag({a})
           /\ IF k = 0
              THEN /\ ub' = TRUE
                   /\ UNCHANGED <<blocks, sortedBlocks, blockIndex, blockOffset, held>>
              ELSE LET cur == sortedBlocks[k]
                       count == Dec(blocks[cur].count)
                   IN  IF count # 0
                       THEN /\ blocks' = [blocks EXCEPT ![cur].count = count]
                            /\ UNCHANGED <<sortedBlocks, blockIndex, blockOffset, held, ub>>
                       ELSE /\ blocks' = RemoveAt(blocks, cur)
                            /\ sortedBlocks' = sortBlocks(blocks')
                            /\ blockIndex' = Dec(blockIndex)
                            /\ held' = held - deleteSize(blocks[cur])
                            /\ IF blockIndex' = SizeMax
                               THEN UNCHANGED <<blockOffset, ub>>
                               ELSE IF blockIndex' < Len(blocks')
                               THEN /\ blockOffset' = restoredOffset(blocks', blockIndex')
                                    /\ ub' = ub
                               ELSE /\ blockOffset' \in GarbageOffsets
                                    /\ ub' = TRUE

(***************************************************************************)
(* gbr::arena                                                              *)
(***************************************************************************)
HeaderBytes == 32
HeaderAlign == 8

Shift == 2 ^ ShiftBits
Mask == 2 ^ MaskBits

\* (x + a - 1) & ~(a - 1) on size_t, a a power of two or zero
AlignUp(x, a) == IF a = 0 THEN 0 ELSE (((x + a - 1) % Word) \div a) * a

ArenaHeader(alignment, totalSize, userSize, offset) ==
    [alignment |-> alignment, totalSize |-> totalSize, userSize |-> userSize, offset |-> offset]

NoArena == [base |-> NullPtr, header |-> ArenaHeader(0, 0, 0, 0)]

\* the element types the calls are instantiated with: sizeof(T), alignof(T)
Types == {[size |-> 1, align |-> 1], [size |-> 4, align |-> 4], [size |-> 8, align |-> 8]}

ArenaSizes == {0, 16, 64}
ArenaCounts == {0, 1, 3, 6}
Granularities == {64, 256}
ReserveSizes == {200, 500}
InitialSizes == {16}

\* createArena<alignment>(size) on a block that operator new returned at raw
sizeOfHeaderMut(alignment) == HeaderBytes

sizeOfHeader(alignment) ==
    IF alignment <= HeaderAlign
    THEN HeaderBytes
    ELSE IF alignment > HeaderBytes THEN alignment ELSE alignment * 2

alignmentWithHeader(alignment) ==
    IF alignment <= HeaderAlign THEN HeaderAlign ELSE alignment

createArena(alignment, raw, size) ==
    [base |-> raw + sizeOfHeader(alignment),
     header |-> ArenaHeader(alignmentWithHeader(alignment),
                            (size + sizeOfHeader(alignment)) % Word, size, 0)]

createVirtualArenaMut(base, allocGranularity, reserveSize, initialSize) ==
    LET initial == AlignUp(initialSize, allocGranularity)
        reserve == AlignUp(reserveSize, allocGranularity)
        reserveSizeOrAlignment == ((reserve * Shift) % Word) + allocGranularity
    IN  [base |-> base + HeaderBytes,
         header |-> ArenaHeader(reserveSizeOrAlignment, initial, initial - HeaderBytes, 0)]

createVirtualArena(base, allocGranularity, reserveSize, initialSize) ==
    LET initial == AlignUp(initialSize + HeaderBytes, allocGranularity)
        reserve == AlignUp(reserveSize, allocGranularity)
        reserveSizeOrAlignment == ((reserve * Shift) % Word) + allocGranularity
    IN  [base |-> base + HeaderBytes,
         header |-> ArenaHeader(reserveSizeOrAlignment, initial, initial - HeaderBytes, 0)]

\* the arena functions touch the arena alone; the ghosts live and hist are
\* kept by the step that makes the call
ArenaIdle ==
    UNCHANGED <<sys, blocks, sortedBlocks, blockIndex, blockOffset, held, ub, mem, threads>>

Untracked == UNCHANGED <<live, hist>>

\* the cursors from which calls are explored
InReach == arena.header.offset <= MaxArenaOffset

clearArenaMut ==
    /\ sys \in {"arena", "virtual"}
    /\ arena' = [arena EXCEPT !.header.userSize = 0]
    /\ ret' = Returned("clearArena", 0, NullPtr)
    /\ ArenaIdle

getOffset(a) == a.header.offset

\* what a destroy function hands to the system: operator delete(pointer,
\* size, alignment) or VirtualFree(pointer, size, MEM_RELEASE)
Released(op, pointer, size, alignment) ==
    [op |-> op, p |-> pointer, n |-> size, alignment |-> alignment]

destroyArena ==
    LET header == arena.header
        basePointer == Sub(arena.base, Sub(header.totalSize, header.userSize))
    IN  /\ sys = "arena"
        /\ arena # NoArena
        /\ ret' = Released("destroyArena", basePointer, header.totalSize, header.alignment)
        /\ arena' = NoArena
        /\ ArenaIdle

destroyVirtualArena ==
    /\ sys = "virtual"
    /\ arena # NoArena
    /\ ret' = Released("destroyVirtualArena", arena.base, 0, 0)
    /\ arena' = NoArena
    /\ ArenaIdle

setOffset(offset) ==
    /\ sys \in {"arena", "virtual"}
    /\ arena' = [arena EXCEPT !.header.offset = offset]
    /\ ret' = Returned("setOffset", offset, NullPtr)
    /\ ArenaIdle

\* stdAllocator / staticAllocator / stdJunkAllocator ::deallocate(T*, size_t) {}
adapterDeallocateMut(pointer, count) ==
    /\ sys \in {"arena", "virtual"}
    /\ arena' = [arena EXCEPT !.header.offset = IF count > @ THEN 0 ELSE @ - count]
    /\ ret' = Returned("deallocate", count, pointer)
    /\ ArenaIdle

adapterDeallocate(pointer, count) ==
    /\ sys \in {"arena", "virtual"}
    /\ arena' = arena
    /\ ret' = Returned("deallocate", count, pointer)
    /\ ArenaIdle

stepBackwards(T, count) ==
    LET bytes == (count * T.size) % Word
        offset == arena.header.offset
    IN  /\ sys \in {"arena", "virtual"}
        /\ arena' = [arena EXCEPT !.header.offset = IF bytes > offset THEN 0 ELSE offset - bytes]
        /\ ret' = Returned("stepBackwards", count, NullPtr)
        /\ ArenaIdle

clearArena ==
    /\ sys \in {"arena", "virtual"}
    /\ arena' = [arena EXCEPT !.header.offset = 0]
    /\ ret' = Returned("clearArena", 0, NullPtr)
    /\ ArenaIdle

ArenaAllocateMut(T, count) ==
    LET allocateSize == (count * T.size) % Word
        size == arena.header.userSize
        offset == arena.header.offset
    IN  /\ sys \in {"arena", "virtual"}
        /\ IF (offset + allocateSize) % Word > size
           THEN /\ ret' = Returned("allocate", count, NullPtr)
                /\ arena' = arena
           ELSE /\ ret' = Returned("allocate", count, arena.base + offset)
                /\ arena' = [arena EXCEPT !.header.offset = (offset + allocateSize) % Word]
        /\ ArenaIdle

ArenaAllocate(T, count) ==
    LET allocateSize == (count * T.size) % Word
        size == arena.header.userSize
        offset == arena.header.offset
    IN  /\ sys \in {"arena", "virtual"}
        /\ IF (offset + allocateSize) % Word >= size
           THEN /\ ret' = Returned("allocate", count, NullPtr)
                /\ arena' = arena
           ELSE /\ ret' = Returned("allocate", count, arena.base + offset)
                /\ arena' = [arena EXCEPT !.header.offset = (offset + allocateSize) % Word]
        /\ ArenaIdle

multiTypeAllocate(T, count) ==
    LET allocateSize == (count * T.size) % Word
        size == arena.header.userSize
        offset == arena.header.offset
        alignedPointer == AlignUp(arena.base + offset, T.align)
    IN  /\ sys \in {"arena", "virtual"}
        /\ IF (alignedPointer + allocateSize) % Word >= (arena.base + size) % Word
           THEN /\ ret' = Returned("multiTypeAllocate", count, NullPtr)
                /\ arena' = arena
           ELSE /\ ret' = Returned("multiTypeAllocate", count, alignedPointer)
                /\ arena' = [arena EXCEPT
                                !.header.offset = Sub((alignedPointer + allocateSize) % Word, arena.base)]
        /\ ArenaIdle

\* multiTypeGetFreeSlots<T>(arena); sizeof(T) is a power of two or not, the
\* shift and the division give the same quotient
multiTypeGetFreeSlots(a, T) ==
    LET size == a.header.userSize
        offset == a.header.offset
        alignedPointer == AlignUp(a.base + offset, T.align)
        remainingSpace == Sub((a.base + size) % Word, alignedPointer)
    IN  remainingSpace \div T.size

unsafeMultiTypeAllocate(T, count) ==
    LET allocateSize == (count * T.size) % Word
        offset == arena.header.offset
        alignedPointer == AlignUp(arena.base + offset, T.align)
    IN  /\ sys \in {"arena", "virtual"}
        /\ ret' = Returned("unsafeMultiTypeAllocate", count, alignedPointer)
        /\ arena' = [arena EXCEPT
                        !.header.offset = Sub((alignedPointer + allocateSize) % Word, arena.base)]
        /\ ArenaIdle

\* the header after virtualGrow(arena, size), and the bytes it reports
virtualGrow(header, size) ==
    LET allocGranularity == header.alignment % Mask
        newSize == AlignUp((header.totalSize + size) % Word, allocGranularity)
        bytesGrown == Sub(newSize, header.totalSize)
    IN  IF newSize > header.alignment \div Shift
        THEN [header |-> header, bytesGrown |-> 0]
        ELSE [header |-> [header EXCEPT !.totalSize = (@ + bytesGrown) % Word,
                                        !.userSize = (@ + bytesGrown) % Word],
              bytesGrown |-> bytesGrown]

\* a call of virtualGrow(arena, size) by the user; the value returned is the
\* number of bytes grown
virtualGrowCall(size) ==
    /\ sys = "virtual"
    /\ arena' = [arena EXCEPT !.header = virtualGrow(arena.header, size).header]
    /\ ret' = Returned("virtualGrow", size, virtualGrow(arena.header, size).bytesGrown)
    /\ ArenaIdle

virtualAllocateMut(T, count) ==
    LET allocateSize == (count * T.size) % Word
        size == arena.header.userSize
        offset == arena.header.offset
        grown == virtualGrow(arena.header, allocateSize)
    IN  /\ sys = "virtual"
        /\ IF (offset + allocateSize) % Word >= size /\ grown.bytesGrown = 0
           THEN /\ ret' = Returned("virtualAllocate", count, NullPtr)
                /\ arena' = arena
           ELSE /\ ret' = Returned("virtualAllocate", count, arena.base + offset)
                /\ arena' = [arena EXCEPT
                                !.header = [(IF (offset + allocateSize) % Word >= size
                                             THEN grown.header ELSE arena.header)
                                            EXCEPT !.offset = (offset + allocateSize) % Word]]
        /\ ArenaIdle

virtualAllocate(T, count) ==
    LET allocateSize == (count * T.size) % Word
        totalSize == arena.header.totalSize
        size == arena.header.userSize
        offset == arena.header.offset
        grown == IF allocateSize > totalSize
                 THEN virtualGrow(arena.header, allocateSize)
                 ELSE virtualGrow(arena.header, totalSize)
    IN  /\ sys = "virtual"
        /\ IF (offset + allocateSize) % Word >= size /\ grown.bytesGrown = 0
           THEN /\ ret' = Returned("virtualAllocate", count, NullPtr)
                /\ arena' = arena
           ELSE /\ ret' = Returned("virtualAllocate", count, arena.base + offset)
                /\ arena' = [arena EXCEPT
                                !.header = [(IF (offset + allocateSize) % Word >= size
                                             THEN grown.header ELSE arena.header)
                                            EXCEPT !.offset = (offset + allocateSize) % Word]]
        /\ ArenaIdle

(***************************************************************************)
(* Specifications                                                          *)
(***************************************************************************)
Counts == 0..(SlabSize + MaxOver)

NoLock == 0
NoThreads == [mutex |-> NoLock, pc |-> <<>>, mine |-> <<>>, pairs |-> <<>>]

InitState ==
    /\ blocks = <<>>
    /\ sortedBlocks = <<>>
    /\ blockIndex = 0
    /\ blockOffset = 0
    /\ live = EmptyBag
    /\ held = 0
    /\ ret = Returned("none", 0, NullPtr)
    /\ ub = FALSE
    /\ hist = [created |-> 0, peak |-> 0, allocs |-> 0, order |-> <<>>]

InitBlock ==
    /\ InitState
    /\ threads = NoThreads

InitArena ==
    /\ sys = "arena"
    /\ mem = MemSlots
    /\ InitBlock
    /\ \E base \in {HeaderAlign, 2 * HeaderAlign}, size \in ArenaSizes :
          arena = createArena(HeaderAlign, base, size)

InitVirtual ==
    /\ sys = "virtual"
    /\ mem = MemSlots
    /\ InitBlock
    /\ \E allocGranularity \in Granularities, reserveSize \in ReserveSizes,
          initialSize \in InitialSizes :
          arena = createVirtualArena(allocGranularity, allocGranularity, reserveSize, initialSize)

Init ==
    \/ /\ sys \in {"basic", "extended"}
       /\ mem = MemSlots
       /\ InitBlock
       /\ arena = NoArena
    \/ InitArena
    \/ InitVirtual

Allocate ==
    /\ \E count \in Counts : (count = 0 \/ BagCardinality(live) < MaxLive) /\ allocate(count)
    /\ UNCHANGED <<sys, hist, mem, arena, threads>>

Deallocate ==
    /\ \E a \in BagToSet(live) : deallocate(a)
    /\ UNCHANGED <<sys, hist, mem, arena, threads>>

ArenaStep ==
    \E T \in Types, count \in ArenaCounts :
        \/ InReach /\ ArenaAllocate(T, count) /\ Untracked
        \/ InReach /\ multiTypeAllocate(T, count) /\ Untracked
        \/ InReach /\ virtualAllocate(T, count) /\ Untracked

ArenaClear == clearArena /\ Untracked

Next == Allocate \/ Deallocate \/ ArenaStep \/ ArenaClear

Spec == Init /\ [][Next]_vars

(***************************************************************************)
(* Ghost views used by the claims                                          *)
(***************************************************************************)
LiveSet == BagToSet(live)

InSlab(info, pointer) == info.p <= pointer /\ pointer < info.p + info.allocatedCount

\* outstanding allocate calls whose returned pointer lies in the slab
CallsIn(info) ==
    LET inside == {a \in LiveSet : InSlab(info, a.p)}
        sum[S \in SUBSET inside] ==
            IF S = {} THEN 0
            ELSE LET a == CHOOSE x \in S : TRUE
                 IN  CopiesIn(a, live) + sum[S \ {a}]
    IN  sum[inside]

\* the slots of all outstanding allocations
ResidentSlots ==
    LET sum[S \in SUBSET LiveSet] ==
            IF S = {} THEN 0
            ELSE LET a == CHOOSE x \in S : TRUE
                 IN  a.n * CopiesIn(a, live) + sum[S \ {a}]
    IN  sum[LiveSet]

AllocStep(count) == ret'.op = "allocate" /\ ret'.n = count
BlockSys == sys \in {"basic", "extended"}

(***************************************************************************)
(* Stack-discipline runs: requests of 1..slabSize slots, every release is  *)
(* of the most recent unreleased allocation.  hist counts the slabs ever   *)
(* created and the peak of the resident slots.                             *)
(***************************************************************************)
Ceil(a, b) == (a + b - 1) \div b

Last(s) == s[Len(s)]
Front(s) == SubSeq(s, 1, Len(s) - 1)

InitLifo ==
    /\ sys \in {"basic", "extended"}
    /\ mem = MemSlots
    /\ InitBlock
    /\ arena = NoArena

LifoAllocate ==
    /\ hist.allocs < MaxAllocs
    /\ BagCardinality(live) < MaxLive
    /\ \E count \in 1..SlabSize : allocate(count)
    /\ hist' = [created |-> hist.created + (IF Len(blocks') > Len(blocks) THEN 1 ELSE 0),
                peak |-> Max(hist.peak, ResidentSlots'),
                allocs |-> hist.allocs + 1,
                order |-> Append(hist.order,
                                 CHOOSE a \in BagToSet(live') : CopiesIn(a, live') > CopiesIn(a, live))]
    /\ UNCHANGED <<sys, mem, arena, threads>>

LifoDeallocate ==
    /\ hist.order # <<>>
    /\ deallocate(Last(hist.order))
    /\ hist' = [hist EXCEPT !.order = Front(hist.order)]
    /\ UNCHANGED <<sys, mem, arena, threads>>

LifoNext == LifoAllocate \/ LifoDeallocate

SpecLifo == InitLifo /\ [][LifoNext]_vars

(***************************************************************************)
(* Scenario S2: the basic allocator with slabSize = 4, requests of 1..3    *)
(* slots, releases in any order.                                           *)
(***************************************************************************)
InitS2 ==
    /\ sys = "basic"
    /\ mem = S2MemSlots
    /\ InitBlock
    /\ arena = NoArena

S2Allocate ==
    /\ BagCardinality(live) < S2MaxLive
    /\ \E count \in 1..3 : allocate(count)
    /\ UNCHANGED <<sys, hist, mem, arena, threads>>

S2Deallocate ==
    /\ \E a \in BagToSet(live) : deallocate(a)
    /\ UNCHANGED <<sys, hist, mem, arena, threads>>

S2Next == S2Allocate \/ S2Deallocate

SpecS2 == InitS2 /\ [][S2Next]_vars

(***************************************************************************)
(* The thread-safe basic allocator shared by NThreads threads.  Every      *)
(* thread runs MaxPairs times: allocate(c), c in 1..slabSize, then         *)
(* deallocate of the pointer it got.  allocate and deallocate hold the     *)
(* singleton's mutex from entry to return (std::scoped_lock), so a call    *)
(* is one step taken by the thread that owns the mutex.                    *)
(***************************************************************************)
Threads == 1..NThreads

NoAlloc == Alloc(NullPtr, 0, NullPtr)

InitThreads ==
    /\ sys = "basic"
    /\ mem = MemSlots
    /\ InitState
    /\ arena = NoArena
    /\ threads = [mutex |-> NoLock,
                  pc |-> [t \in Threads |-> "allocate"],
                  mine |-> [t \in Threads |-> NoAlloc],
                  pairs |-> [t \in Threads |-> 0]]

ThreadLock(t) ==
    /\ threads.mutex = NoLock
    /\ threads.pc[t] \in {"allocate", "deallocate"}
    /\ ~ub
    /\ threads' = [threads EXCEPT !.mutex = t]
    /\ UNCHANGED <<sys, blocks, sortedBlocks, blockIndex, blockOffset, live, held, ret,
                   ub, hist, mem, arena>>

ThreadAllocate(t) ==
    /\ threads.mutex = t
    /\ threads.pc[t] = "allocate"
    /\ \E count \in 1..SlabSize : allocate(count)
    /\ threads' = [threads EXCEPT
                      !.mutex = NoLock,
                      !.pc[t] = "deallocate",
                      !.mine[t] = CHOOSE a \in BagToSet(live') :
                                      CopiesIn(a, live') > CopiesIn(a, live)]
    /\ UNCHANGED <<sys, hist, mem, arena>>

ThreadDeallocate(t) ==
    /\ threads.mutex = t
    /\ threads.pc[t] = "deallocate"
    /\ deallocate(threads.mine[t])
    /\ threads' = [threads EXCEPT
                      !.mutex = NoLock,
                      !.pc[t] = IF threads.pairs[t] + 1 = MaxPairs THEN "done" ELSE "allocate",
                      !.mine[t] = NoAlloc,
                      !.pairs[t] = @ + 1]
    /\ UNCHANGED <<sys, hist, mem, arena>>

ThreadsNext ==
    \E t \in Threads : ThreadLock(t) \/ ThreadAllocate(t) \/ ThreadDeallocate(t)

SpecThreads == InitThreads /\ [][ThreadsNext]_vars

(***************************************************************************)
(* C1: any two outstanding allocations of the block allocator (basic or    *)
(* extended) occupy disjoint slot ranges [p, p + count), whatever the      *)
(* order of the releases so far.                                           *)
(***************************************************************************)
C1_Disjoint ==
    BlockSys =>
        /\ \A a \in LiveSet : CopiesIn(a, live) = 1
        /\ \A a, b \in LiveSet : a # b => Disjoint(a.p, a.n, b.p, b.n)

(***************************************************************************)
(* C2: every slab descriptor's liveCount is >= 1 and equals the number of  *)
(* outstanding allocate calls whose returned pointer lies in that slab; a  *)
(* slab is never returned to the system while an allocation carved from it *)
(* is outstanding, and it is held exactly once.                            *)
(***************************************************************************)
C2_LiveCount ==
    (BlockSys /\ ~ub) =>
        /\ \A i \in 1..Len(blocks) :
              blocks[i].count >= 1 /\ blocks[i].count = CallsIn(blocks[i])
        /\ \A a \in LiveSet : \E i \in 1..Len(blocks) : InSlab(blocks[i], a.p)
        /\ \A i, j \in 1..Len(blocks) : i # j => blocks[i].p # blocks[j].p

DecrementsOnly(base) ==
    \E i \in 1..Len(blocks) :
        /\ blocks[i].p = base
        /\ IF blocks[i].count = 1
           THEN blocks' = RemoveAt(blocks, i)
           ELSE blocks' = [blocks EXCEPT ![i].count = @ - 1]

C4_Lookup ==
    [][\A a \in LiveSet :
          (deallocate(a) /\ a.slab # NullPtr) => DecrementsOnly(a.slab)]_vars

(***************************************************************************)
(* C7: allocate(count), 1 <= count <= slabSize, on a non-empty registry.   *)
(* If count <= capacity - cursor the call returns currentSlab.base +       *)
(* cursor, advances the cursor by count, increments that slab's liveCount  *)
(* and creates no slab; otherwise it saves the cursor in the current       *)
(* slab's savedOffset, appends a fresh standard slab with liveCount 1,     *)
(* makes it current, sets cursor = count and returns the new base.         *)
(***************************************************************************)
C7_Allocate ==
    [][\A c \in 1..SlabSize :
          (BlockSys /\ AllocStep(c) /\ blocks # <<>> /\ ~ub') =>
              /\ blockIndex < Len(blocks)
              /\ LET cur == blocks[blockIndex + 1]
                 IN  IF c <= cur.allocatedCount - blockOffset
                     THEN /\ ret'.p = cur.p + blockOffset
                          /\ blockOffset' = blockOffset + c
                          /\ blocks' = [blocks EXCEPT ![blockIndex + 1].count = @ + 1]
                     ELSE /\ ret'.p # NullPtr
                          /\ blocks' = Append(
                                [blocks EXCEPT ![blockIndex + 1].savedOffset = blockOffset],
                                allocInfo(ret'.p, 1, 0, SlabSize))
                          /\ blockIndex' = Len(blocks') - 1
                          /\ blockOffset' = c]_vars

(***************************************************************************)
(* C9: the basic allocator answers allocate(count) with count > slabSize   *)
(* by the null sentinel and leaves slabs, sortedSlabs, currentIndex,       *)
(* cursor and every liveCount unchanged.                                   *)
(***************************************************************************)
C9_OversizeBasic ==
    [][\A c \in Counts :
          (sys = "basic" /\ AllocStep(c) /\ c > SlabSize) =>
              /\ ret'.p = NullPtr
              /\ UNCHANGED <<blocks, sortedBlocks, blockIndex, blockOffset, live, held>>]_vars

C9_Witness ==
    /\ sys = "basic"
    /\ ret.op = "allocate"
    /\ ret.n > SlabSize
    /\ ret.p = NullPtr
    /\ Len(blocks) = 2
    /\ blockOffset < SlabSize

(***************************************************************************)
(* C10: the extended allocator serves allocate(count), count > slabSize,   *)
(* from a new private slab of capacity exactly count with liveCount 1,     *)
(* leaves the current standard slab and its cursor as they were, and every *)
(* later allocate(k), k <= slabSize, is served from a standard slab, never *)
(* from slots of an oversize slab.                                         *)
(***************************************************************************)
C10_Oversize ==
    [][(sys = "extended" /\ ~ub') =>
          /\ \A c \in (SlabSize + 1)..(SlabSize + MaxOver) :
                AllocStep(c) =>
                    /\ ret'.p # NullPtr
                    /\ Len(blocks') = Len(blocks) + 1
                    /\ \A i \in 1..Len(blocks) : blocks[i].p # ret'.p
                    /\ \E i \in 1..Len(blocks') :
                          /\ blocks'[i].p = ret'.p
                          /\ blocks'[i].count = 1
                          /\ blocks'[i].allocatedCount = c
                    /\ blockOffset' = blockOffset
                    /\ blockIndex < Len(blocks) =>
                          /\ blockIndex' < Len(blocks')
                          /\ blocks'[blockIndex' + 1] = blocks[blockIndex + 1]
          /\ \A k \in 1..SlabSize :
                AllocStep(k) =>
                    \E i \in 1..Len(blocks') :
                        /\ blocks'[i].allocatedCount = SlabSize
                        /\ InSlab(blocks'[i], ret'.p)]_vars

(***************************************************************************)
(* C5 as stated: under strictly LIFO releases the number of slabs ever     *)
(* created equals ceil(peak resident slots / slabSize).                    *)
(***************************************************************************)
C5_StackExact == hist.created = Ceil(hist.peak, SlabSize)

(***************************************************************************)
(* C5 as amended: under strictly LIFO releases the number of slabs ever    *)
(* created is at least ceil(peak resident slots / slabSize).               *)
(***************************************************************************)
C5_StackAtLeast == hist.created >= Ceil(hist.peak, SlabSize)

C5_Witness ==
    /\ ret.op = "deallocate"
    /\ hist.created > Ceil(hist.peak, SlabSize)
    /\ hist.peak > SlabSize
    /\ Len(blocks) = 1

(***************************************************************************)
(* C6 as stated (scenario S2): after each release the number of slabs in   *)
(* the registry is at most ceil(outstandingSlots / 4) + 1.                 *)
(***************************************************************************)
C6_SlabBound ==
    ret.op = "deallocate" => Len(blocks) <= Ceil(ResidentSlots, SlabSize) + 1

(***************************************************************************)
(* C6 as amended: after each release the number of slabs in the registry   *)
(* is at most the number of allocations not yet released.                  *)
(***************************************************************************)
C6_SlabPerCall ==
    ret.op = "deallocate" => Len(blocks) <= BagCardinality(live)

C6_Witness ==
    /\ ret.op = "deallocate"
    /\ Len(blocks) = 3
    /\ BagCardinality(live) = 3
    /\ ResidentSlots <= SlabSize

(***************************************************************************)
(* C8 as stated: every allocating call with count = 0 (block allocate,     *)
(* arena allocate, allocateMulti, allocateVirtual) returns the null        *)
(* sentinel and changes no allocator state.                                *)
(***************************************************************************)
ZeroStep ==
    /\ ret'.op \in {"allocate", "multiTypeAllocate", "virtualAllocate"}
    /\ ret'.n = 0

C8_ZeroNull ==
    [][ZeroStep =>
          /\ ret'.p = NullPtr
          /\ UNCHANGED <<blocks, sortedBlocks, blockIndex, blockOffset, arena>>]_vars

(***************************************************************************)
(* C8 as amended: block allocate(0) returns the null sentinel and changes  *)
(* no allocator state.  Arena allocate(0) leaves the header unchanged and  *)
(* returns null only when the cursor has reached userSize, otherwise the   *)
(* non-null address base + cursor.  allocateMulti(0) returns null, header  *)
(* unchanged, or a non-null address at most alignof(T) - 1 bytes above     *)
(* base + cursor, and moves the cursor to it.  allocateVirtual(0) returns  *)
(* null only with the cursor at userSize or beyond, header unchanged;      *)
(* otherwise it returns base + cursor, keeps the cursor, and changes the   *)
(* header only if the cursor had reached userSize (it grows the arena).    *)
(***************************************************************************)
C8_ZeroRequest ==
    [][ZeroStep =>
          LET base == arena.base
              offset == arena.header.offset
              userSize == arena.header.userSize
          IN  /\ (BlockSys /\ ret'.op = "allocate") =>
                    /\ ret'.p = NullPtr
                    /\ UNCHANGED <<blocks, sortedBlocks, blockIndex, blockOffset, live, held>>
              /\ (~BlockSys /\ ret'.op = "allocate") =>
                    /\ arena' = arena
                    /\ ret'.p = IF offset >= userSize THEN NullPtr ELSE base + offset
              /\ ret'.op = "multiTypeAllocate" =>
                    IF ret'.p = NullPtr
                    THEN arena' = arena
                    ELSE /\ \E T \in Types :
                               /\ ret'.p % T.align = 0
                               /\ base + offset <= ret'.p
                               /\ ret'.p < base + offset + T.align
                         /\ arena' = [arena EXCEPT !.header.offset = ret'.p - base]
              /\ ret'.op = "virtualAllocate" =>
                    IF ret'.p = NullPtr
                    THEN offset >= userSize /\ arena' = arena
                    ELSE /\ ret'.p = base + offset
                         /\ arena'.base = base
                         /\ arena'.header.offset = offset
                         /\ offset < userSize => arena' = arena]_vars

C8_Witness ==
    /\ sys = "arena"
    /\ ret.op = "allocate"
    /\ ret.n = 0
    /\ arena.header.offset > 0
    /\ ret.p = arena.base + arena.header.offset

(***************************************************************************)
(* C11: threads sharing the thread-safe block allocator, each running      *)
(* allocate / deallocate pairs, under every interleaving: allocations held *)
(* by different threads never overlap, every slab's liveCount is the       *)
(* number of outstanding pointers in it (each release decremented the slab *)
(* that owns its pointer), the slabs held are distinct and account for all *)
(* slots obtained from the system (none released twice), and once every    *)
(* thread has terminated the registry is empty.                            *)
(***************************************************************************)
C11_Threads ==
    /\ \A t, u \in Threads :
          (t # u /\ threads.mine[t] # NoAlloc /\ threads.mine[u] # NoAlloc) =>
              Disjoint(threads.mine[t].p, threads.mine[t].n,
                       threads.mine[u].p, threads.mine[u].n)
    /\ ~ub =>
          /\ \A i \in 1..Len(blocks) : blocks[i].count = CallsIn(blocks[i])
          /\ \A i, j \in 1..Len(blocks) : i # j => blocks[i].p # blocks[j].p
          /\ held = SlabSize * Len(blocks)
    /\ (\A t \in Threads : threads.pc[t] = "done") => blocks = <<>>

(***************************************************************************)
(* Bounded arenas under machine arithmetic.  Element counts range over the *)
(* small counts and over counts whose byte size wraps the machine word.    *)
(* live is the ghost of the ranges handed out since creation or the last   *)
(* clear: [p, p + count * sizeof(T)) of every successful call.             *)
(***************************************************************************)
MaxTracked == 3

WideCounts == ArenaCounts \cup {Word \div 8, Word \div 4 + 1, Word - 1}

TrackedSizes == {13, 24, 64}

Tracked(p, bytes) ==
    LET a == Alloc(p, bytes, arena.base)
    IN  IF p = NullPtr \/ bytes = 0 \/ CopiesIn(a, live) >= 2
        THEN live
        ELSE live (+) SetToBag({a})

InitTracked ==
    /\ sys = "arena"
    /\ mem = MemSlots
    /\ InitBlock
    /\ \E raw \in {HeaderAlign, 2 * HeaderAlign}, size \in TrackedSizes :
          arena = createArena(HeaderAlign, raw, size)

TrackedAllocate ==
    \E T \in Types, count \in WideCounts :
        /\ BagCardinality(live) < MaxTracked
        /\ InReach
        /\ ArenaAllocate(T, count)
        /\ live' = Tracked(ret'.p, count * T.size)
        /\ UNCHANGED hist

TrackedMultiAllocate ==
    \E T \in Types, count \in WideCounts :
        /\ BagCardinality(live) < MaxTracked
        /\ InReach
        /\ multiTypeAllocate(T, count)
        /\ live' = Tracked(ret'.p, count * T.size)
        /\ UNCHANGED hist

TrackedClear ==
    /\ clearArena
    /\ live' = EmptyBag
    /\ UNCHANGED hist

TrackedNext == TrackedAllocate \/ TrackedMultiAllocate \/ TrackedClear

SpecArena == InitTracked /\ [][TrackedNext]_vars

\* C12: the single-type bounds-checked allocate<T>(arena, count), with
\* needed = count * sizeof(T) as the size_t value the function computes:
\* when cursor + needed >= userSize it returns the null sentinel and leaves
\* the cursor alone; otherwise it returns userBase + the old cursor and the
\* cursor becomes old cursor + needed.  No other header field and not the
\* handle changes in either case.
C12_Allocate ==
    [][\A T \in Types, count \in WideCounts :
          ArenaAllocate(T, count) =>
              LET needed == (count * T.size) % Word
                  cursor == arena.header.offset
              IN  /\ ret'.op = "allocate"
                  /\ arena'.base = arena.base
                  /\ arena'.header.alignment = arena.header.alignment
                  /\ arena'.header.totalSize = arena.header.totalSize
                  /\ arena'.header.userSize = arena.header.userSize
                  /\ IF (cursor + needed) % Word >= arena.header.userSize
                     THEN /\ ret'.p = NullPtr
                          /\ arena'.header.offset = cursor
                     ELSE /\ ret'.p = arena.base + cursor
                          /\ arena'.header.offset = (cursor + needed) % Word]_vars

\* a request served behind an earlier one
C12_Witness ==
    /\ sys = "arena"
    /\ ret.op = "allocate"
    /\ ret.n > 0
    /\ ret.p # NullPtr /\ ret.p > arena.base /\ arena.header.offset > ret.p - arena.base

\* C13: in a bounded arena, whatever the counts (count * sizeof(T) and
\* cursor + needed wrap modulo 2^w), every successful allocate<T> or
\* multiTypeAllocate<T> since creation or the last clear returns a range
\* [p, p + count * sizeof(T)) inside [userBase, userBase + userSize) that is
\* disjoint from the range of every earlier successful call, and the cursor
\* never decreases across such calls.
C13_Disjoint ==
    /\ [](\A a \in BagToSet(live) :
              /\ arena.base <= a.p
              /\ a.p + a.n <= arena.base + arena.header.userSize
              /\ CopiesIn(a, live) = 1
              /\ \A b \in BagToSet(live) \ {a} : Disjoint(a.p, a.n, b.p, b.n))
    /\ [][ret'.op \in {"allocate", "multiTypeAllocate"} =>
              arena'.header.offset >= arena.header.offset]_vars

(***************************************************************************)
(* Arenas of every alignment.  hist is the ghost of how the arena was made *)
(* (the template argument of createArena and the address operator new      *)
(* returned) and of the element types it has been used for.                *)
(***************************************************************************)
MaxAlignedOffset == 150

Alignments == {1, 8, 16, 32, 64}

AlignedTypes ==
    {[size |-> 1, align |-> 1], [size |-> 8, align |-> 8],
     [size |-> 16, align |-> 16], [size |-> 64, align |-> 64]}

AlignedCounts == {0, 1, 3}

AlignedSizes == {128}

InitAligned ==
    /\ sys = "arena"
    /\ mem = MemSlots
    /\ blocks = <<>>
    /\ sortedBlocks = <<>>
    /\ blockIndex = 0
    /\ blockOffset = 0
    /\ live = EmptyBag
    /\ held = 0
    /\ ret = Returned("none", 0, NullPtr)
    /\ ub = FALSE
    /\ threads = NoThreads
    /\ \E alignment \in Alignments, k \in 1..2, size \in AlignedSizes :
          /\ arena = createArena(alignment, k * alignmentWithHeader(alignment), size)
          /\ hist = [alignment |-> alignment,
                     raw |-> k * alignmentWithHeader(alignment),
                     used |-> {}]

Used(T) ==
    /\ arena.header.offset <= MaxAlignedOffset
    /\ hist' = [hist EXCEPT !.used = @ \cup {T}]
    /\ UNCHANGED live

AlignedAllocate ==
    \E T \in AlignedTypes, count \in AlignedCounts : ArenaAllocate(T, count) /\ Used(T)

AlignedMultiAllocate ==
    \E T \in AlignedTypes, count \in AlignedCounts : multiTypeAllocate(T, count) /\ Used(T)

AlignedUnsafeMultiAllocate ==
    \E T \in AlignedTypes, count \in AlignedCounts : unsafeMultiTypeAllocate(T, count) /\ Used(T)

AlignedNext ==
    AlignedAllocate \/ AlignedMultiAllocate \/ AlignedUnsafeMultiAllocate \/ ArenaClear

SpecAligned == InitAligned /\ [][AlignedNext]_vars

\* C14: every non-null pointer returned by multiTypeAllocate<T> or
\* unsafeMultiTypeAllocate<T> is a multiple of alignof(T), whatever cursor
\* earlier allocations of other types left; every non-null pointer returned
\* by the single-type allocate<T> on an arena made by createArena<A> with
\* A >= alignof(T) and used only for T is a multiple of alignof(T); and the
\* user base createArena<A> returns is a multiple of A with the 32-byte
\* header fitting between the raw allocation and the user base, for every
\* power-of-two A.
C14_Aligned ==
    [][/\ arena.base % hist.alignment = 0
       /\ arena.base - hist.raw >= HeaderBytes
       /\ arena.header.totalSize - arena.header.userSize = arena.base - hist.raw
       /\ \A T \in AlignedTypes :
             /\ ret'.p # NullPtr
                    /\ (multiTypeAllocate(T, ret'.n) \/ unsafeMultiTypeAllocate(T, ret'.n))
                => ret'.p % T.align = 0
             /\ ret'.p # NullPtr /\ hist.used \subseteq {T} /\ hist.alignment >= T.align
                    /\ ArenaAllocate(T, ret'.n)
                => ret'.p % T.align = 0]_vars

\* in an arena of alignment 64, a multi-type allocation that lands behind
\* allocations of 1-byte and of 16-byte elements
C14_Witness ==
    /\ sys = "arena"
    /\ hist.alignment = 64
    /\ {[size |-> 1, align |-> 1], [size |-> 16, align |-> 16]} \subseteq hist.used
    /\ ret.op = "multiTypeAllocate"
    /\ ret.n > 0
    /\ ret.p > arena.base

\* C15: after clearArena(arena) getOffset(arena) is 0 and userSize, totalSize
\* and alignment are what they were; the next successful allocation returns
\* the user base (multiTypeAllocate<T>: the user base rounded up to
\* alignof(T)); and a second clear finds the cursor at 0 already, so it
\* changes nothing.
C15_Clear ==
    [][/\ clearArena =>
             /\ getOffset(arena') = 0
             /\ arena'.base = arena.base
             /\ arena'.header.userSize = arena.header.userSize
             /\ arena'.header.totalSize = arena.header.totalSize
             /\ arena'.header.alignment = arena.header.alignment
       /\ ret.op = "clearArena" =>
             /\ getOffset(arena) = 0
             /\ ret'.p # NullPtr =>
                   \A T \in Types :
                      /\ ArenaAllocate(T, ret'.n) \/ virtualAllocate(T, ret'.n)
                            => ret'.p = arena.base
                      /\ multiTypeAllocate(T, ret'.n)
                            => ret'.p = AlignUp(arena.base, T.align)]_vars

\* the state right after a clear of a non-empty arena region
C15_Witness ==
    /\ sys \in {"arena", "virtual"}
    /\ ret.op = "clearArena"
    /\ arena.header.userSize > 0
    /\ getOffset(arena) = 0

\* C16: for every reachable cursor and every userSize, also one that is not
\* a multiple of alignof(T), multiTypeGetFreeSlots<T>(arena) is the largest n
\* with alignUp(userBase + cursor, alignof(T)) + n * sizeof(T) <=
\* userBase + userSize; and in a 64-byte arena, after multiTypeAllocate of
\* 1 x u32 and then 1 x u64, the cursor is 16 and
\* multiTypeGetFreeSlots<u64>() is 6.
C16_FreeSlotsMulti ==
    /\ \A T \in Types :
          LET n == multiTypeGetFreeSlots(arena, T)
              alignedPointer == AlignUp(arena.base + arena.header.offset, T.align)
              end == arena.base + arena.header.userSize
          IN  /\ alignedPointer + n * T.size <= end
              /\ alignedPointer + (n + 1) * T.size > end
    /\ (/\ arena.header.userSize = 64
        /\ live = SetToBag({Alloc(arena.base, 4, arena.base),
                            Alloc(arena.base + 8, 8, arena.base)})
        /\ ret = Returned("multiTypeAllocate", 1, arena.base + 8))
          => /\ getOffset(arena) = 16
             /\ multiTypeGetFreeSlots(arena, [size |-> 8, align |-> 8]) = 6

(***************************************************************************)
(* The cursor of a bounded arena under every function that moves it.       *)
(* hist is the ghost of the values getOffset has returned.                 *)
(***************************************************************************)
MaxSaved == 1

CursorSizes == {13, 24}

InitCursor ==
    /\ sys = "arena"
    /\ mem = MemSlots
    /\ blocks = <<>>
    /\ sortedBlocks = <<>>
    /\ blockIndex = 0
    /\ blockOffset = 0
    /\ live = EmptyBag
    /\ held = 0
    /\ ret = Returned("none", 0, NullPtr)
    /\ ub = FALSE
    /\ threads = NoThreads
    /\ hist = [saved |-> {}]
    /\ \E raw \in {HeaderAlign, 2 * HeaderAlign}, size \in CursorSizes :
          arena = createArena(HeaderAlign, raw, size)

CursorAllocate ==
    /\ InReach
    /\ \E T \in Types, count \in WideCounts : ArenaAllocate(T, count)
    /\ Untracked

CursorMultiAllocate ==
    /\ InReach
    /\ \E T \in Types, count \in WideCounts : multiTypeAllocate(T, count)
    /\ Untracked

CursorStepBackwards ==
    /\ InReach
    /\ \E T \in Types, count \in WideCounts : stepBackwards(T, count)
    /\ Untracked

CursorGetOffset ==
    /\ InReach
    /\ Cardinality(hist.saved \cup {getOffset(arena)}) <= MaxSaved
    /\ ret' = Returned("getOffset", getOffset(arena), NullPtr)
    /\ hist' = [hist EXCEPT !.saved = @ \cup {getOffset(arena)}]
    /\ UNCHANGED <<arena, live>>
    /\ ArenaIdle

CursorSetOffset ==
    /\ \E offset \in hist.saved : setOffset(offset)
    /\ Untracked

CursorDeallocate ==
    /\ InReach
    /\ \E pointer \in {NullPtr, arena.base, arena.base + HeaderAlign}, count \in ArenaCounts :
          adapterDeallocate(pointer, count)
    /\ Untracked

CursorNext ==
    \/ CursorAllocate
    \/ CursorDeallocate
    \/ CursorMultiAllocate
    \/ CursorStepBackwards
    \/ CursorGetOffset
    \/ CursorSetOffset
    \/ ArenaClear

SpecCursor == InitCursor /\ [][CursorNext]_vars

IsPowerOfTwo(x) == \E k \in 0..WordBits : x = 2 ^ k

\* C17: in every state reachable from createArena(size) by clearArena, the
\* bounds-checked allocate and multiTypeAllocate, the safe stepBackwards and
\* setOffset with a value getOffset returned earlier, the header satisfies
\* offset <= userSize <= totalSize and alignment is a power of two.
C17_Header ==
    /\ arena.header.offset <= arena.header.userSize
    /\ arena.header.userSize <= arena.header.totalSize
    /\ IsPowerOfTwo(arena.header.alignment)

\* C18: deallocate(p, n) of the arena adapters is a no-op: for every p and n
\* it leaves the cursor, userSize, totalSize, alignment and the arena handle
\* as they were.
C18_DeallocateNoOp ==
    [][(ret'.op = "deallocate" /\ adapterDeallocate(ret'.p, ret'.n)) =>
          /\ arena'.base = arena.base
          /\ getOffset(arena') = getOffset(arena)
          /\ arena'.header.userSize = arena.header.userSize
          /\ arena'.header.totalSize = arena.header.totalSize
          /\ arena'.header.alignment = arena.header.alignment]_vars

\* the first block of a used arena was passed to deallocate
C18_Witness ==
    /\ sys = "arena"
    /\ ret = Returned("deallocate", 3, arena.base)
    /\ getOffset(arena) >= 3
    /\ getOffset(arena) < arena.header.userSize

\* the reserved ceiling the header of a virtual arena records
Ceiling(header) == header.alignment \div Shift

\* C19: for a virtual arena of any power-of-two allocation granularity the
\* host can report, across virtualAllocate calls totalSize never decreases,
\* changes only in a call that grows the arena, and never exceeds the
\* reserved ceiling recorded in the header.
C19_GrowthMonotone ==
    [][sys = "virtual" =>
          /\ arena'.header.totalSize >= arena.header.totalSize
          /\ arena'.header.totalSize <= Ceiling(arena'.header)
          /\ arena'.header.totalSize # arena.header.totalSize =>
                /\ ret'.op = "virtualAllocate"
                /\ \E T \in Types :
                      /\ virtualAllocate(T, ret'.n)
                      /\ (arena.header.offset + ret'.n * T.size) % Word
                            >= arena.header.userSize]_vars

\* C20: virtualAllocate<T>(arena, count), needed = count * sizeof(T): when
\* cursor + needed >= userSize it first calls virtualGrow with
\* max(totalSize, needed); it returns the null sentinel only when that grow
\* returned 0, the new committed size exceeding the reserved ceiling, and
\* then totalSize, userSize and the cursor are unchanged; when the grow
\* succeeds, and when none is needed, the allocation is served at the old
\* cursor.
C20_VirtualAllocate ==
    [][\A T \in Types :
          (ret'.op = "virtualAllocate" /\ virtualAllocate(T, ret'.n)) =>
              LET needed == (ret'.n * T.size) % Word
                  header == arena.header
                  cursor == header.offset
                  overflow == (cursor + needed) % Word >= header.userSize
                  grow == virtualGrow(header, Max(header.totalSize, needed))
              IN  /\ ret'.p = NullPtr =>
                        /\ overflow
                        /\ grow.bytesGrown = 0
                        /\ header.totalSize + Max(header.totalSize, needed) > Ceiling(header)
                        /\ arena' = arena
                  /\ (~overflow \/ grow.bytesGrown # 0) =>
                        /\ ret'.p = arena.base + cursor
                        /\ arena'.base = arena.base
                        /\ arena'.header.offset = (cursor + needed) % Word
                        /\ arena'.header.alignment = header.alignment
                        /\ arena'.header.totalSize =
                              IF overflow THEN grow.header.totalSize ELSE header.totalSize
                        /\ arena'.header.userSize =
                              IF overflow THEN grow.header.userSize ELSE header.userSize]_vars

\* a virtual arena that has grown refuses a request: the next grow would
\* pass the ceiling
C20_Witness ==
    /\ sys = "virtual"
    /\ ret.op = "virtualAllocate"
    /\ ret.p = NullPtr
    /\ arena.header.totalSize > Mask \div 2
    /\ arena.header.totalSize <= Ceiling(arena.header)
    /\ getOffset(arena) > 0

(***************************************************************************)
(* Scenario S4: a virtual arena on a host whose allocation granularity is  *)
(* below the 16-bit field of the header, initial size one granule.  The    *)
(* granule is 64 bytes for 4 KiB and the reserved range 32 granules for    *)
(* 1 MiB, which the reduced header field can hold; the first request is    *)
(* 5/4 of a granule, as 5 KiB is.                                          *)
(***************************************************************************)
MaxS4Offset == 2100

S4Granularity == 64

S4Reserved == 32 * S4Granularity

S4Initial == S4Granularity

S4First == (5 * S4Granularity) \div 4

S4Counts == {S4First, S4Granularity, 4 * S4Granularity}

Byte == [size |-> 1, align |-> 1]

InitS4 ==
    /\ sys = "virtual"
    /\ mem = MemSlots
    /\ InitBlock
    /\ arena = createVirtualArena(S4Granularity, S4Granularity, S4Reserved, S4Initial)

S4Allocate ==
    \E count \in S4Counts :
        /\ arena.header.offset <= MaxS4Offset
        /\ virtualAllocate(Byte, count)
        /\ Untracked

S4Next == S4Allocate

SpecS4 == InitS4 /\ [][S4Next]_vars

\* a request that does not fit the committed user range of an arena whose
\* committed size has reached the reserved ceiling
S4AtCeiling ==
    /\ ret'.op = "virtualAllocate"
    /\ arena.header.totalSize = Ceiling(arena.header)
    /\ virtualAllocate(Byte, ret'.n)
    /\ arena.header.offset + ret'.n >= arena.header.userSize

S4FirstCall == ret.op = "none" /\ virtualAllocate(Byte, S4First)

\* C21 as stated: after createVirtualArena(reserved 1 MiB, initial 4 KiB) the
\* first allocation, of 5 KiB, grows the arena during the call (totalSize
\* strictly increases) to totalSize 8 KiB; once the ceiling is reached the
\* next allocation returns null and totalSize is unchanged.
C21_S4Grows ==
    [][/\ S4FirstCall =>
             /\ arena'.header.totalSize > arena.header.totalSize
             /\ arena'.header.totalSize = 2 * S4Granularity
       /\ S4AtCeiling =>
             /\ ret'.p = NullPtr
             /\ arena'.header.totalSize = arena.header.totalSize]_vars

\* C21 amended: createVirtualArena commits the initial size plus the header
\* rounded up to the granularity, 8 KiB, so the first allocation, of 5 KiB,
\* is served at the user base without any growth and totalSize is 8 KiB
\* before and after it; once the ceiling is reached the next allocation that
\* does not fit returns null and totalSize is unchanged.
C21_S4NoGrowth ==
    [][/\ S4FirstCall =>
             /\ arena.header.totalSize = 2 * S4Granularity
             /\ arena'.header.totalSize = arena.header.totalSize
             /\ arena'.header.userSize = arena.header.userSize
             /\ ret'.p = arena.base
       /\ S4AtCeiling =>
             /\ ret'.p = NullPtr
             /\ arena'.header.totalSize = arena.header.totalSize]_vars

\* the arena has grown to the ceiling and the next request was refused
C21_Witness ==
    /\ sys = "virtual"
    /\ arena.header.totalSize = S4Reserved
    /\ Ceiling(arena.header) = S4Reserved
    /\ ret.op = "virtualAllocate"
    /\ ret.p = NullPtr
    /\ getOffset(arena) >= S4First

(***************************************************************************)
(* Virtual arenas under virtualGrow and virtualAllocate.                   *)
(***************************************************************************)
GrowSizes == {0, 1, 2 ^ (MaskBits - 2), 100}

VirtualAllocateStep ==
    \E T \in Types, count \in ArenaCounts :
        InReach /\ virtualAllocate(T, count) /\ Untracked

VirtualGrowStep ==
    \E size \in GrowSizes : virtualGrowCall(size) /\ Untracked

VirtualNext == VirtualAllocateStep \/ VirtualGrowStep

SpecVirtual == InitVirtual /\ [][VirtualNext]_vars

\* the allocation granularity createVirtualArena wrote into the low field of
\* header.alignment
Granularity(header) == header.alignment % Shift

\* C22: in every state reachable from createVirtualArena by virtualGrow and
\* virtualAllocate, totalSize is a multiple of the allocation granularity; a
\* successful virtualGrow(arena, r) returns exactly
\* ceil(r / granularity) * granularity and adds it to totalSize and to
\* userSize; and every range virtualAllocate returns lies inside the
\* committed user range [userBase, userBase + userSize).
C22_Committed ==
    [][LET granularity == Granularity(arena.header)
       IN  /\ arena.header.totalSize % granularity = 0
           /\ arena'.header.totalSize % granularity = 0
           /\ (ret'.op = "virtualGrow" /\ virtualGrowCall(ret'.n) /\ ret'.p # 0) =>
                 /\ ret'.p = Ceil(ret'.n, granularity) * granularity
                 /\ arena'.header.totalSize = arena.header.totalSize + ret'.p
                 /\ arena'.header.userSize = arena.header.userSize + ret'.p
           /\ \A T \in Types :
                 (ret'.op = "virtualAllocate" /\ virtualAllocate(T, ret'.n)
                        /\ ret'.p # NullPtr) =>
                     /\ arena.base <= ret'.p
                     /\ ret'.p + ret'.n * T.size
                           <= arena.base + arena'.header.userSize]_vars

(***************************************************************************)
(* Arenas from creation to destruction.  hist is the ghost of what         *)
(* creation obtained from the system: the address operator new or the      *)
(* reserving VirtualAlloc returned, and the size and alignment asked for.  *)
(***************************************************************************)
DestroySizes == {16, 64}

Obtained(raw, size, alignment) == [raw |-> raw, size |-> size, alignment |-> alignment]

InitDestroy ==
    /\ mem = MemSlots
    /\ blocks = <<>>
    /\ sortedBlocks = <<>>
    /\ blockIndex = 0
    /\ blockOffset = 0
    /\ live = EmptyBag
    /\ held = 0
    /\ ret = Returned("none", 0, NullPtr)
    /\ ub = FALSE
    /\ threads = NoThreads
    /\ \/ /\ sys = "arena"
          /\ \E alignment \in Alignments, k \in 1..2, size \in DestroySizes :
                LET raw == k * alignmentWithHeader(alignment)
                IN  /\ arena = createArena(alignment, raw, size)
                    /\ hist = Obtained(raw, size + sizeOfHeader(alignment),
                                       alignmentWithHeader(alignment))
       \/ /\ sys = "virtual"
          /\ \E allocGranularity \in Granularities, reserveSize \in ReserveSizes,
                initialSize \in InitialSizes :
                /\ arena = createVirtualArena(allocGranularity, allocGranularity,
                                              reserveSize, initialSize)
                /\ hist = Obtained(allocGranularity,
                                   AlignUp(reserveSize, allocGranularity), 0)

DestroyAllocate ==
    \E T \in Types, count \in ArenaCounts :
        /\ arena # NoArena
        /\ InReach
        /\ ArenaAllocate(T, count) \/ multiTypeAllocate(T, count)
        /\ Untracked

DestroyVirtualAllocate ==
    \E T \in Types, count \in ArenaCounts :
        /\ arena # NoArena
        /\ InReach
        /\ virtualAllocate(T, count)
        /\ Untracked

DestroyArena == destroyArena /\ Untracked

DestroyVirtualArena == destroyVirtualArena /\ Untracked

DestroyNext ==
    DestroyAllocate \/ DestroyVirtualAllocate \/ DestroyArena \/ DestroyVirtualArena

SpecDestroy == InitDestroy /\ [][DestroyNext]_vars

\* C23: destroyVirtualArena(arena) hands the system the base address of the
\* range createVirtualArena reserved, so that the whole range is released in
\* one call; destroyArena(arena) of a bounded arena hands back the raw base
\* address, the byte size and the alignment createArena obtained, whatever
\* the cursor.
C23_Destroy ==
    [][/\ destroyVirtualArena => ret'.p = hist.raw
       /\ destroyArena =>
             /\ ret'.p = hist.raw
             /\ ret'.n = hist.size
             /\ ret'.alignment = hist.alignment]_vars

(***************************************************************************)
(* Two families of the singleton arena adapter, staticAllocator<T, UID,    *)
(* use_safety, use_multi_type> for two element types and one UID.  Each    *)
(* family has its own static handle; arena.handle is the handle of every   *)
(* family and arena.at the arena behind every address a createArena        *)
(* returned.                                                               *)
(***************************************************************************)
Families == {"T", "U"}

ElementOf(f) == IF f = "T" THEN [size |-> 4, align |-> 4] ELSE [size |-> 8, align |-> 8]

FamilyRaws == {64, 192}

FamilyCounts == {0, 1, 2}

FamilyCapacity == 4

FamilyReturned(op, f, n, p) == [op |-> op, family |-> f, n |-> n, p |-> p]

\* gbr::arena::multiTypeAllocate<T>(a, count) on the arena record a: the new
\* record and the pointer returned
multiTypeAllocateIn(a, T, count) ==
    LET allocateSize == (count * T.size) % Word
        size == a.header.userSize
        offset == a.header.offset
        alignedPointer == AlignUp(a.base + offset, T.align)
    IN  IF (alignedPointer + allocateSize) % Word >= (a.base + size) % Word
        THEN [arena |-> a, p |-> NullPtr]
        ELSE [arena |-> [a EXCEPT !.header.offset =
                                     Sub((alignedPointer + allocateSize) % Word, a.base)],
              p |-> alignedPointer]

FamilyIdle ==
    UNCHANGED <<sys, blocks, sortedBlocks, blockIndex, blockOffset, live, held, hist, mem,
                threads>>

InitFamilies ==
    /\ sys = "arena"
    /\ mem = MemSlots
    /\ InitBlock
    /\ arena = [handle |-> [f \in Families |-> NullPtr], at |-> <<>>]

\* staticAllocator<T, UID, ...>::createArena(count)
FamilyCreateArena(f) ==
    \E raw \in FamilyRaws :
        LET T == ElementOf(f)
            created == createArena(T.align, raw, (FamilyCapacity * T.size) % Word)
        IN  /\ ~ub
            /\ created.base \notin DOMAIN arena.at
            /\ arena' = [handle |-> [arena.handle EXCEPT ![f] = created.base],
                         at |-> (created.base :> created) @@ arena.at]
            /\ ret' = FamilyReturned("createArena", f, FamilyCapacity, created.base)
            /\ UNCHANGED ub
            /\ FamilyIdle

\* the converting constructor staticAllocator<T, ...>(const staticAllocator<U, ...>& other)
FamilyConvert(f) ==
    \E other \in Families \ {f} :
        /\ ~ub
        /\ arena' = [arena EXCEPT !.handle[f] = arena.handle[other]]
        /\ ret' = FamilyReturned("construct", f, 0, arena.handle[other])
        /\ UNCHANGED ub
        /\ FamilyIdle

\* staticAllocator<T, ...>::allocate(count); through a null handle the call
\* reads the header of no arena
FamilyAllocate(f) ==
    \E count \in FamilyCounts :
        /\ ~ub
        /\ IF arena.handle[f] = NullPtr
           THEN /\ ub' = TRUE
                /\ \E garbage \in GarbagePtrs :
                      ret' = FamilyReturned("allocate", f, count, garbage)
                /\ arena' = arena
           ELSE LET result == multiTypeAllocateIn(arena.at[arena.handle[f]], ElementOf(f), count)
                IN  /\ arena' = [arena EXCEPT !.at[arena.handle[f]] = result.arena]
                    /\ ret' = FamilyReturned("allocate", f, count, result.p)
                    /\ UNCHANGED ub
        /\ FamilyIdle

\* staticAllocator<T, ...>::deallocate(T*, size_t) {}
FamilyDeallocate(f) ==
    /\ ~ub
    /\ ret.op = "allocate"
    /\ ret.family = f
    /\ ret' = FamilyReturned("deallocate", f, ret.n, ret.p)
    /\ UNCHANGED <<arena, ub>>
    /\ FamilyIdle

\* staticAllocator<T, ...>::clearArena()
FamilyClear(f) ==
    /\ ~ub
    /\ arena.handle[f] # NullPtr
    /\ arena' = [arena EXCEPT !.at[arena.handle[f]].header.offset = 0]
    /\ ret' = FamilyReturned("clearArena", f, 0, NullPtr)
    /\ UNCHANGED ub
    /\ FamilyIdle

FamiliesNext ==
    \E f \in Families :
        \/ FamilyCreateArena(f)
        \/ FamilyConvert(f)
        \/ FamilyAllocate(f)
        \/ FamilyDeallocate(f)
        \/ FamilyClear(f)

SpecFamilies == InitFamilies /\ [][FamiliesNext]_vars

\* C24: two singleton adapter families that differ in element type share no
\* state: no operation on an adapter of one family (converting construction
\* from an adapter of the other element type, createArena, allocate,
\* deallocate, clear) changes the arena handle of the other family or the
\* cursor of the other family's arena.
C24_Isolation ==
    [][\A g \in Families \ {ret'.family} :
          /\ arena'.handle[g] = arena.handle[g]
          /\ arena.handle[g] # NullPtr =>
                arena'.at[arena.handle[g]] = arena.at[arena.handle[g]]]_vars

\* the position in blocks of the slab the release of allocation a settles on
ReleasedSlab(a) == sortedBlocks[findBlock(blocks, sortedBlocks, a.p)]

\* C25: whenever a deallocate drops a slab's liveCount to 0, whichever slab
\* it is, afterwards blockIndex indexes the slab that immediately preceded
\* the released one in insertion order, and blockOffset is the offset of the
\* first slot never handed out from the slab that is now current, so that
\* the next bump allocation returns no slot that is still outstanding.
\* Stated for the basic variant, whose registry order is the insertion order.
C25_Release ==
    [][\A a \in LiveSet :
          (sys = "basic" /\ deallocate(a) /\ Len(blocks') < Len(blocks) /\ ~ub') =>
              /\ ReleasedSlab(a) > 1 => blockIndex' = ReleasedSlab(a) - 2
              /\ Len(blocks') > 0 =>
                    /\ blockIndex' < Len(blocks')
                    /\ \A b \in BagToSet(live') :
                          InSlab(blocks'[blockIndex' + 1], b.p) =>
                              b.p + b.n <= blocks'[blockIndex' + 1].p + blockOffset']_vars

\* C26: after every public operation, if blocks is non-empty then
\* blockIndex < blocks.size(), blockIndex designates the last element of
\* blocks, and blockOffset <= the capacity of that slab, in the basic and in
\* the extended variant, from the zero-initialised state.
C26_Cursor ==
    (BlockSys /\ ~ub /\ Len(blocks) > 0) =>
        /\ blockIndex < Len(blocks)
        /\ blockIndex = Len(blocks) - 1
        /\ blockOffset <= blocks[Len(blocks)].allocatedCount

\* C27: whenever a deallocate removes the last remaining slab, blockIndex
\* becomes the sentinel (the maximum size_t value) and no descriptor of the
\* now-empty registry is read, in both variants and for every history, one
\* that starts with an oversize allocation included.
C27_EmptyForm ==
    [][(BlockSys /\ ret'.op = "deallocate" /\ Len(blocks) = 1 /\ Len(blocks') = 0) =>
          /\ blockIndex' = SizeMax
          /\ ~ub']_vars

\* C28: sortedBlocks holds exactly the descriptors that are in blocks (each
\* one once, none that is not in blocks), in strictly ascending order of
\* base address; it is so after every operation, every insertion into and
\* removal from blocks being followed by a rebuild before the operation returns.
C28_Sorted ==
    (BlockSys /\ ~ub) =>
        /\ Len(sortedBlocks) = Len(blocks)
        /\ {sortedBlocks[k] : k \in 1..Len(sortedBlocks)} = 1..Len(blocks)
        /\ \A k \in 1..(Len(sortedBlocks) - 1) :
              blocks[sortedBlocks[k]].p < blocks[sortedBlocks[k + 1]].p

\* two slabs are registered, the later one at the lower base, after a release
C28_Witness ==
    /\ BlockSys /\ ~ub
    /\ ret.op = "deallocate"
    /\ \E i, j \in 1..Len(blocks) : i < j /\ blocks[j].p < blocks[i].p

(***************************************************************************)
(* The mutex of the thread-safe allocators, step by step.  A call by       *)
(* thread t is four steps: the std::scoped_lock is constructed (the mutex  *)
(* is acquired), the body reads the shared state for the first time, the   *)
(* body runs to its last write, and the scoped_lock is destroyed at the    *)
(* return.  threads.at[t] is the thread's position in its call; hist.seen  *)
(* is a ghost: the shared state as each thread read it.  Every thread runs *)
(* MaxPairs times allocate(c), c in 1..slabSize, then deallocate of the    *)
(* pointer it got.                                                         *)
(***************************************************************************)
\* room enough for operator new to find a free slab whatever the placement
\* of the slabs in use: one slab per thread at most, each blocking fewer
\* than 2 * slabSize bases
MutexMemSlots == (2 * NThreads - 1) * SlabSize

Shared == <<blocks, sortedBlocks, blockIndex, blockOffset>>

NotSeen == <<>>

Inside(t) == threads.at[t] # "outside"

InitMutex ==
    /\ sys \in {"basic", "extended"}
    /\ mem = MutexMemSlots
    /\ blocks = <<>>
    /\ sortedBlocks = <<>>
    /\ blockIndex = 0
    /\ blockOffset = 0
    /\ live = EmptyBag
    /\ held = 0
    /\ ret = Returned("none", 0, NullPtr)
    /\ ub = FALSE
    /\ hist = [seen |-> [t \in Threads |-> NotSeen]]
    /\ arena = NoArena
    /\ threads = [mutex |-> NoLock,
                  pc |-> [t \in Threads |-> "allocate"],
                  at |-> [t \in Threads |-> "outside"],
                  mine |-> [t \in Threads |-> NoAlloc],
                  pairs |-> [t \in Threads |-> 0]]

MutexIdle ==
    UNCHANGED <<sys, blocks, sortedBlocks, blockIndex, blockOffset, live, held, ret,
                ub, mem, arena>>

\* a lock constructor that does not wait for the mutex to be free
MutexEnterMut(t) ==
    /\ threads.at[t] = "outside"
    /\ threads.pc[t] \in {"allocate", "deallocate"}
    /\ ~ub
    /\ threads' = [threads EXCEPT !.mutex = t, !.at[t] = "locked"]
    /\ UNCHANGED hist
    /\ MutexIdle

\* const std::scoped_lock<std::mutex> lock(mutex): blocks until the mutex is free
MutexEnter(t) ==
    /\ threads.mutex = NoLock
    /\ threads.at[t] = "outside"
    /\ threads.pc[t] \in {"allocate", "deallocate"}
    /\ ~ub
    /\ threads' = [threads EXCEPT !.mutex = t, !.at[t] = "locked"]
    /\ UNCHANGED hist
    /\ MutexIdle

\* the first read of the body: blocks.size() in allocate, sortedBlocks in deallocate
MutexRead(t) ==
    /\ threads.at[t] = "locked"
    /\ threads' = [threads EXCEPT !.at[t] = "read"]
    /\ hist' = [hist EXCEPT !.seen[t] = Shared]
    /\ MutexIdle

\* the rest of the body, to its last write
MutexWrite(t) ==
    /\ threads.at[t] = "read"
    /\ \/ /\ threads.pc[t] = "allocate"
          /\ \E count \in 1..SlabSize : allocate(count)
          /\ threads' = [threads EXCEPT
                            !.at[t] = "written",
                            !.mine[t] = CHOOSE a \in BagToSet(live') :
                                            CopiesIn(a, live') > CopiesIn(a, live)]
       \/ /\ threads.pc[t] = "deallocate"
          /\ deallocate(threads.mine[t])
          /\ threads' = [threads EXCEPT !.at[t] = "written", !.mine[t] = NoAlloc]
    /\ UNCHANGED <<sys, hist, mem, arena>>

\* the return: the scoped_lock is destroyed and the mutex released
MutexLeave(t) ==
    /\ threads.at[t] = "written"
    /\ threads' = [threads EXCEPT
                      !.mutex = NoLock,
                      !.at[t] = "outside",
                      !.pc[t] = IF threads.pc[t] = "allocate" THEN "deallocate"
                                ELSE IF threads.pairs[t] + 1 = MaxPairs THEN "done"
                                ELSE "allocate",
                      !.pairs[t] = IF threads.pc[t] = "deallocate" THEN @ + 1 ELSE @]
    /\ hist' = [hist EXCEPT !.seen[t] = NotSeen]
    /\ MutexIdle

MutexNext ==
    \E t \in Threads : MutexEnter(t) \/ MutexRead(t) \/ MutexWrite(t) \/ MutexLeave(t)

SpecMutex == InitMutex /\ [][MutexNext]_vars

\* a thread that is inside a call keeps running: the bodies make no blocking call
SpecMutexFair ==
    SpecMutex /\ \A t \in Threads : WF_vars(MutexRead(t) \/ MutexWrite(t) \/ MutexLeave(t))

\* C29: under the thread-safe tag allocate and deallocate acquire the mutex
\* before their first read of the shared state and hold it until after their
\* last write: a thread inside a body owns the mutex, so at most one thread
\* is inside a body at a time; every operation appears atomic (the state a
\* body read is the state it writes to, and only the owner of the mutex
\* changes the shared state); and every operation that has started
\* completes, the body neither re-acquiring the mutex nor waiting while it
\* holds it.
C29_Mutex ==
    /\ [](\A t \in Threads :
            /\ Inside(t) => threads.mutex = t
            /\ threads.at[t] = "read" => hist.seen[t] = Shared)
    /\ [][Shared' # Shared =>
             \E t \in Threads : /\ threads.mutex = t /\ threads'.mutex = t
                                /\ threads.at[t] = "read"
                                /\ threads'.at[t] = "written"]_vars
    /\ \A t \in Threads : Inside(t) ~> ~Inside(t)

\* one thread has run a deallocate body and still owns the mutex while
\* another thread, holding an allocation, waits outside for its own deallocate
C29_Witness ==
    \E t, u \in Threads :
        /\ t # u
        /\ threads.at[t] = "written" /\ threads.pc[t] = "deallocate"
        /\ threads.mutex = t
        /\ threads.at[u] = "outside" /\ threads.pc[u] = "deallocate"
        /\ threads.mine[u] # NoAlloc

(***************************************************************************)
(* The extended allocator under the construction tag.  construct(count)    *)
(* is allocate(count) followed by count placement-news; deallocate(p,      *)
(* count) runs count destructors before it releases the slots.  hist is a  *)
(* ghost: built counts the constructor runs per slot address since the     *)
(* slot was handed out, ended the destructor runs of the last deallocate.  *)
(***************************************************************************)
InitConstruct ==
    /\ sys = "extended"
    /\ mem = MemSlots
    /\ blocks = <<>>
    /\ sortedBlocks = <<>>
    /\ blockIndex = 0
    /\ blockOffset = 0
    /\ live = EmptyBag
    /\ held = 0
    /\ ret = Returned("none", 0, NullPtr)
    /\ ub = FALSE
    /\ hist = [built |-> EmptyBag, ended |-> EmptyBag]
    /\ arena = NoArena
    /\ threads = NoThreads

\* the slots of a run of count slots at pointer
Run(pointer, count) == {pointer + i : i \in 0..(count - 1)}

\* the bag b without the slots in gone
Without(b, gone) == [slot \in DOMAIN b \ gone |-> b[slot]]

\* for (i < count) new(data) T(args...): count constructor runs, all at data
constructed(data, count) ==
    IF count = 0 THEN EmptyBag ELSE [slot \in {data} |-> count]

\* for (i < count) pointer[i].~T(): one destructor run per slot of the run
destroyed(pointer, count) == SetToBag(Run(pointer, count))

construct(count) ==
    /\ allocate(count)
    /\ hist' = IF ub' THEN hist
               ELSE [built |-> Without(hist.built, Run(ret'.p, count))
                                   (+) constructed(ret'.p, count),
                     ended |-> EmptyBag]

Construct ==
    /\ \E count \in Counts :
          (count = 0 \/ BagCardinality(live) < MaxLive) /\ construct(count)
    /\ UNCHANGED <<sys, mem, arena, threads>>

ConstructDeallocate ==
    /\ \E a \in BagToSet(live) :
          /\ deallocate(a)
          /\ hist' = [built |-> Without(hist.built, Run(a.p, a.n)),
                      ended |-> destroyed(a.p, a.n)]
    /\ UNCHANGED <<sys, mem, arena, threads>>

ConstructNext == Construct \/ ConstructDeallocate

SpecConstruct == InitConstruct /\ [][ConstructNext]_vars

\* C30: under the construction tag construct(count, args...) obtains a run
\* r of count slots from allocate and placement-constructs exactly one
\* object in each of the slots r[0..count-1]; deallocate(r, count) runs the
\* destructor once on each of those slots.
C30_Construct ==
    [][/\ (ret'.op = "allocate" /\ ret'.p # NullPtr /\ ~ub') =>
             \A slot \in Run(ret'.p, ret'.n) : CopiesIn(slot, hist'.built) = 1
       /\ (ret'.op = "deallocate" /\ ~ub') =>
             \A a \in BagToSet(live) :
                 CopiesIn(a, live') < CopiesIn(a, live) =>
                     \A slot \in Run(a.p, a.n) : CopiesIn(slot, hist'.ended) = 1]_vars

(***************************************************************************)
(* construct<T> and multiTypeConstruct<T> on a bounded arena: the checked  *)
(* allocation, then count placement-news at data + i.  hist is a ghost:    *)
(* built counts the constructor runs per byte address since the last       *)
(* clear, elem is sizeof(T) of the last call, halted says that the run has *)
(* executed undefined behaviour (a placement-new through a null pointer)   *)
(* and stops.  The build either omits a construction through null or       *)
(* performs it, writing at address i * sizeof(T).                          *)
(***************************************************************************)
RegionSizes == {16, 24}

\* constructor runs explored between two clears
MaxBuilt == 4

InitRegion ==
    /\ sys = "arena"
    /\ mem = MemSlots
    /\ blocks = <<>>
    /\ sortedBlocks = <<>>
    /\ blockIndex = 0
    /\ blockOffset = 0
    /\ live = EmptyBag
    /\ held = 0
    /\ ret = Returned("none", 0, NullPtr)
    /\ ub = FALSE
    /\ hist = [built |-> EmptyBag, elem |-> 0, halted |-> FALSE]
    /\ threads = NoThreads
    /\ \E raw \in {HeaderAlign, 2 * HeaderAlign}, size \in RegionSizes :
          arena = createArena(HeaderAlign, raw, size)

\* the addresses data + i, i < count, of a T* data
Objects(data, count, T) == {(data + i * T.size) % Word : i \in 0..(count - 1)}

\* for (i < count) ::new(data + i) T(args...), the ghost after the loop
constructLoop(data, count, T) ==
    \E built \in {hist.built (+) SetToBag(Objects(data, count, T))}
                 \cup (IF data = NullPtr /\ count > 0 THEN {hist.built} ELSE {}) :
        hist' = [built |-> built, elem |-> T.size,
                 halted |-> (data = NullPtr /\ count > 0)]

ArenaConstruct(T, count) ==
    /\ ArenaAllocate(T, count)
    /\ constructLoop(ret'.p, count, T)

multiTypeConstruct(T, count) ==
    /\ multiTypeAllocate(T, count)
    /\ constructLoop(ret'.p, count, T)

RegionConstruct ==
    /\ ~hist.halted
    /\ BagCardinality(hist.built) <= MaxBuilt
    /\ \E T \in Types, count \in ArenaCounts : ArenaConstruct(T, count)
    /\ UNCHANGED live

RegionMultiConstruct ==
    /\ ~hist.halted
    /\ BagCardinality(hist.built) <= MaxBuilt
    /\ \E T \in Types, count \in ArenaCounts : multiTypeConstruct(T, count)
    /\ UNCHANGED live

RegionClear ==
    /\ ~hist.halted
    /\ clearArena
    /\ hist' = [hist EXCEPT !.built = EmptyBag]
    /\ UNCHANGED live

RegionNext == RegionConstruct \/ RegionMultiConstruct \/ RegionClear

SpecRegion == InitRegion /\ [][RegionNext]_vars

\* C31: when the bounds-checked allocation under construct<T> or
\* multiTypeConstruct<T>(arena, count, args...) fails for lack of capacity,
\* the call returns null, constructs no object, writes to no memory and
\* leaves the cursor unchanged; when it succeeds it constructs exactly count
\* objects, at p, p + 1, ..., p + count - 1 of the returned run.
C31_Construct ==
    [][ret'.op \in {"allocate", "multiTypeAllocate"} =>
          IF ret'.p = NullPtr
          THEN /\ hist'.built = hist.built
               /\ arena' = arena
          ELSE /\ hist'.built =
                     hist.built (+) SetToBag(Objects(ret'.p, ret'.n, [size |-> hist'.elem]))
               /\ \A a \in Objects(ret'.p, ret'.n, [size |-> hist'.elem]) :
                     CopiesIn(a, hist'.built) = 1]_vars

(***************************************************************************)
(* The checked and the unchecked allocation paths of a bounded arena side  *)
(* by side.  The unchecked calls are made the way they are meant to be     *)
(* used: with a count that getFreeSlots (multiTypeGetFreeSlots) allows.    *)
(***************************************************************************)
AgreeCounts == 1..6

\* getFreeSlots<T>(arena); the shift and the division give the same quotient
getFreeSlots(a, T) ==
    LET size == a.header.userSize
        offset == a.header.offset
        remainingSpace == Sub(size, offset)
    IN  remainingSpace \div T.size

\* unsafeAllocate<T>(arena, count) from arena a: the pointer and the cursor
unsafeAllocated(a, T, count) ==
    LET allocateSize == (count * T.size) % Word
        offset == a.header.offset
    IN  [p |-> (a.base + offset) % Word, offset |-> (offset + allocateSize) % Word]

\* unsafeMultiTypeAllocate<T>(arena, count) from arena a: the pointer and the cursor
unsafeMultiTypeAllocated(a, T, count) ==
    LET allocateSize == (count * T.size) % Word
        offset == a.header.offset
        alignedPointer == AlignUp(a.base + offset, T.align)
    IN  [p |-> alignedPointer,
         offset |-> Sub((alignedPointer + allocateSize) % Word, a.base)]

unsafeAllocate(T, count) ==
    /\ sys \in {"arena", "virtual"}
    /\ ret' = Returned("unsafeAllocate", count, unsafeAllocated(arena, T, count).p)
    /\ arena' = [arena EXCEPT !.header.offset = unsafeAllocated(arena, T, count).offset]
    /\ ArenaIdle

AgreeAllocate ==
    \E T \in Types, count \in AgreeCounts :
        InReach /\ ArenaAllocate(T, count) /\ Untracked

AgreeMultiAllocate ==
    \E T \in Types, count \in AgreeCounts :
        InReach /\ multiTypeAllocate(T, count) /\ Untracked

AgreeUnsafeAllocate ==
    \E T \in Types, count \in AgreeCounts :
        /\ InReach
        /\ count <= getFreeSlots(arena, T)
        /\ unsafeAllocate(T, count)
        /\ Untracked

AgreeUnsafeMultiAllocate ==
    \E T \in Types, count \in AgreeCounts :
        /\ InReach
        /\ count <= multiTypeGetFreeSlots(arena, T)
        /\ unsafeMultiTypeAllocate(T, count)
        /\ Untracked

AgreeClear == clearArena /\ Untracked

AgreeNext ==
    \/ AgreeAllocate
    \/ AgreeMultiAllocate
    \/ AgreeUnsafeAllocate
    \/ AgreeUnsafeMultiAllocate
    \/ AgreeClear

SpecAgree == InitArena /\ [][AgreeNext]_vars

\* C32: in every reachable arena state and for every count with
\* 1 <= count <= getFreeSlots<T>(arena) (multi-type: multiTypeGetFreeSlots),
\* the checked allocate<T> (multiTypeAllocate<T>) succeeds, returns the
\* pointer and leaves the cursor that the unchecked unsafeAllocate<T>
\* (unsafeMultiTypeAllocate<T>) would from that state; a request that
\* exactly fills the remaining capacity included.
C32_Agreement ==
    [][\A T \in Types, count \in AgreeCounts :
          /\ (/\ ret'.op = "allocate" /\ ret'.n = count
              /\ count <= getFreeSlots(arena, T)
              /\ ArenaAllocate(T, count)) =>
                 /\ ret'.p # NullPtr
                 /\ ret'.p = unsafeAllocated(arena, T, count).p
                 /\ arena'.header.offset = unsafeAllocated(arena, T, count).offset
          /\ (/\ ret'.op = "multiTypeAllocate" /\ ret'.n = count
              /\ count <= multiTypeGetFreeSlots(arena, T)
              /\ multiTypeAllocate(T, count)) =>
                 /\ ret'.p # NullPtr
                 /\ ret'.p = unsafeMultiTypeAllocated(arena, T, count).p
                 /\ arena'.header.offset =
                        unsafeMultiTypeAllocated(arena, T, count).offset]_vars

====
